---- MODULE Spec2Model ----
(***************************************************************************)
(* One run of streamlit_app.py (the "Starknify Data viewer"): connect to   *)
(* the warehouse, list tables and columns, read the two date inputs, and,  *)
(* when the button is pressed, fetch rows, parse and sort BLOCK_DATE,      *)
(* choose the x-axis interval, resample by mean and plot.                  *)
(*                                                                         *)
(* Time is counted in whole hours; hour 0 is 2024-01-01 00:00.  A date is  *)
(* a day number (day 0 = 2024-01-01); as a timestamp it is midnight of     *)
(* that day.                                                               *)
(***************************************************************************)
EXTENDS Integers, Sequences, FiniteSets, TLC

VARIABLES pc, conn, selected_table, selected_columns, start_date, end_date,
          button, queried, data, dataColumns, times, interval,
          resampled_data, chart, warning, error

vars == <<pc, conn, selected_table, selected_columns, start_date, end_date,
          button, queried, data, dataColumns, times, interval,
          resampled_data, chart, warning, error>>

----------------------------------------------------------------------------
(* Bounds of the model *)

\* largest (end_date - start_date).days explored
MaxDays == 92
\* most negative (end_date - start_date).days explored is -MaxBack
MaxBack == 2
\* latest start date explored, as a day number
MaxStart == 60
\* largest number of rows a fetch returns
MaxRows == 2

----------------------------------------------------------------------------
(* Calendar: what pandas' day and month arithmetic does *)

\* hours in the pandas frequency 'D'
HoursPerDay == 24

\* Python's None, and the value of a name not yet assigned
None == "None"

\* month index m counts from 1 = January 2024
YearOf(m) == 2024 + ((m - 1) \div 12)

IsLeap(y) == (y % 4 = 0 /\ y % 100 # 0) \/ y % 400 = 0

DaysInMonth(m) ==
    LET k == ((m - 1) % 12) + 1
    IN  IF k = 2 THEN (IF IsLeap(YearOf(m)) THEN 29 ELSE 28)
        ELSE IF k \in {4, 6, 9, 11} THEN 30 ELSE 31

RECURSIVE MonthStartDay(_)
\* day number of the first day of month m
MonthStartDay(m) == IF m = 1 THEN 0 ELSE MonthStartDay(m - 1) + DaysInMonth(m - 1)

\* day number of the last day of month m (pandas MonthEnd anchor)
MonthEndDay(m) == MonthStartDay(m) + DaysInMonth(m) - 1

RECURSIVE MonthFrom(_, _)
MonthFrom(day, m) == IF day <= MonthEndDay(m) THEN m ELSE MonthFrom(day, m + 1)

\* month index of a day number (day >= 0)
MonthOf(day) == MonthFrom(day, 1)

\* a date widened to a Timestamp: midnight of that day
Midnight(day) == day * HoursPerDay

\* the day a timestamp falls on
DayOf(t) == t \div HoursPerDay

----------------------------------------------------------------------------
(* generate_time_series *)

\* width in hours of the fixed-width frequencies 'H', 'D', '2D', '5D'
Width(freq) ==
    CASE freq = "H" -> 1
      [] freq = "D" -> HoursPerDay
      [] freq = "2D" -> 2 * HoursPerDay
      [] freq = "5D" -> 5 * HoursPerDay

\* the if/elif chain on days_diff, with the band edge of 'D' excluded
selectIntervalStrict(days_diff) ==
    IF days_diff = 0 THEN "H"
    ELSE IF days_diff < 10 THEN "D"
    ELSE IF days_diff <= 30 THEN "2D"
    ELSE IF days_diff <= 60 THEN "5D"
    ELSE "M"

\* the if/elif chain on days_diff
selectInterval(days_diff) ==
    IF days_diff = 0 THEN "H"
    ELSE IF days_diff <= 10 THEN "D"
    ELSE IF days_diff <= 30 THEN "2D"
    ELSE IF days_diff <= 60 THEN "5D"
    ELSE "M"

RECURSIVE TickRange(_, _, _)
\* start, start + w, start + 2w, ... while <= end
TickRange(t, end, w) ==
    IF t > end THEN <<>> ELSE <<t>> \o TickRange(t + w, end, w)

RECURSIVE MonthEndRange(_, _, _)
\* the month ends from month m on that lie in [start, end]
MonthEndRange(m, start, end) ==
    LET e == Midnight(MonthEndDay(m))
    IN  IF e > end THEN <<>>
        ELSE (IF e >= start THEN <<e>> ELSE <<>>) \o MonthEndRange(m + 1, start, end)

\* pd.date_range dropping a boundary that falls exactly on end
date_rangeOpenEnd(start, end, freq) ==
    IF freq = "M"
    THEN MonthEndRange(MonthOf(DayOf(start)), start, end - 1)
    ELSE TickRange(start, end - 1, Width(freq))

\* pd.date_range(start=start, end=end, freq=freq), both ends inclusive;
\* 'M' is the month-end frequency
date_range(start, end, freq) ==
    IF freq = "M"
    THEN MonthEndRange(MonthOf(DayOf(start)), start, end)
    ELSE TickRange(start, end, Width(freq))

\* (times, interval) as generate_time_series returns them
generate_time_series(start, end) ==
    LET days_diff == end - start
        freq == selectInterval(days_diff)
    IN  [times |-> date_range(Midnight(start), Midnight(end), freq),
         interval |-> freq]

----------------------------------------------------------------------------
(* Rows, parsing and sorting *)

\* the columns SHOW COLUMNS lists for the table, BLOCK_DATE aside
TableColumns == {"a", "b"}

\* a cell is <<>> (NULL / NaN) or <<v>>
ColumnValues(c) == IF c = "a" THEN {<<>>, <<2>>, <<4>>} ELSE {<<>>, <<5>>}

\* BLOCK_DATE values the WHERE ... BETWEEN start AND end filter lets through
RowTimes(start, end) ==
    {t \in {Midnight(start), Midnight(start) + 29,
            Midnight(start + ((end - start) \div 2)) + 5, Midnight(end)} :
        Midnight(start) <= t /\ t <= Midnight(end)}

\* a fetched row: BLOCK_DATE either parses to the instant t or does not parse
RawRows(start, end, columns) ==
    LET cells == [columns -> UNION {ColumnValues(c) : c \in columns}]
        ok == {f \in cells : \A c \in columns : f[c] \in ColumnValues(c)}
    IN  {[BLOCK_DATE |-> [ok |-> TRUE, t |-> t], vals |-> f] :
            t \in RowTimes(start, end), f \in ok}
        \cup (IF start <= end
              THEN {[BLOCK_DATE |-> [ok |-> FALSE, t |-> 0], vals |-> [c \in columns |-> <<>>]]}
              ELSE {})

\* all sequences over S of length at most n
SeqsUpTo(S, n) == UNION {[1..k -> S] : k \in 0..n}

\* does pd.to_datetime raise on this frame?
Unparseable(df) == \E i \in 1..Len(df) : ~df[i].BLOCK_DATE.ok

\* pd.to_datetime on the BLOCK_DATE column of a frame it does not raise on
to_datetime(df) ==
    [i \in 1..Len(df) |-> [BLOCK_DATE |-> df[i].BLOCK_DATE.t, vals |-> df[i].vals]]

RECURSIVE Insert(_, _)
Insert(r, s) ==
    IF s = <<>> THEN <<r>>
    ELSE IF r.BLOCK_DATE < s[1].BLOCK_DATE THEN <<r>> \o s
    ELSE <<s[1]>> \o Insert(r, Tail(s))

RECURSIVE sort_values(_)
\* data.sort_values('BLOCK_DATE'): ascending by BLOCK_DATE
sort_values(df) ==
    IF df = <<>> THEN <<>>
    ELSE Insert(df[Len(df)], sort_values(SubSeq(df, 1, Len(df) - 1)))

----------------------------------------------------------------------------
(* resample_data: df.resample(interval).mean() *)

RECURSIVE Sum(_)
Sum(s) == IF s = <<>> THEN 0 ELSE s[1] + Sum(Tail(s))

RECURSIVE GCD(_, _)
GCD(x, y) == IF y = 0 THEN x ELSE GCD(y, x % y)

\* the present values of column c, in row order
Present(rows, c) ==
    LET RECURSIVE P(_)
        P(s) == IF s = <<>> THEN <<>> ELSE s[1].vals[c] \o P(Tail(s))
    IN  P(rows)

\* a mean that counts a missing cell as zero
meanFillZero(rows, c) ==
    IF rows = <<>> THEN <<>>
    ELSE LET g == GCD(Sum(Present(rows, c)), Len(rows))
         IN  <<Sum(Present(rows, c)) \div g, Len(rows) \div g>>

\* mean of column c over rows, NaN cells skipped: <<>> is NaN, <<n, d>> is n/d
\* in lowest terms
mean(rows, c) ==
    LET vs == Present(rows, c)
    IN  IF vs = <<>> THEN <<>>
        ELSE LET g == GCD(Sum(vs), Len(vs))
             IN  <<Sum(vs) \div g, Len(vs) \div g>>

Min(S) == CHOOSE x \in S : \A y \in S : x <= y
Max(S) == CHOOSE x \in S : \A y \in S : y <= x

\* left edge of the first bin of a fixed-width resample: origin 'start_day'
FirstEdge(first, w) ==
    LET origin == Midnight(DayOf(first))
    IN  origin + ((first - origin) \div w) * w

\* number of bins a resample spans from the first row to the last
BinCount(first, last, freq) ==
    IF freq = "M" THEN MonthOf(DayOf(last)) - MonthOf(DayOf(first)) + 1
    ELSE ((last - FirstEdge(first, Width(freq))) \div Width(freq)) + 1

\* index (from 0) of the bin the instant t falls in
BinOf(t, first, freq) ==
    IF freq = "M" THEN MonthOf(DayOf(t)) - MonthOf(DayOf(first))
    ELSE (t - FirstEdge(first, Width(freq))) \div Width(freq)

\* label of bin i: its left edge, or for 'M' its month end
BinLabel(i, first, freq) ==
    IF freq = "M" THEN Midnight(MonthEndDay(MonthOf(DayOf(first)) + i))
    ELSE FirstEdge(first, Width(freq)) + i * Width(freq)

\* the rows of df that fall in bin i, in order
BinRows(df, i, first, freq) ==
    LET RECURSIVE F(_)
        F(s) == IF s = <<>> THEN <<>>
                ELSE (IF BinOf(s[1].BLOCK_DATE, first, freq) = i THEN <<s[1]>> ELSE <<>>)
                     \o F(Tail(s))
    IN  F(df)

\* set_index('BLOCK_DATE'), resample(interval).mean(), reset_index()
resample_data(df, freq, columns) ==
    IF df = <<>> THEN <<>>
    ELSE LET ts == {df[i].BLOCK_DATE : i \in 1..Len(df)}
             first == Min(ts)
             last == Max(ts)
         IN  [k \in 1..BinCount(first, last, freq) |->
                [BLOCK_DATE |-> BinLabel(k - 1, first, freq),
                 vals |-> [c \in columns |-> mean(BinRows(df, k - 1, first, freq), c)]]]

\* the figure: one trace per selected column over the resampled frame
Figure(resampled, columns, freq) ==
    [title |-> freq,
     x |-> [i \in 1..Len(resampled) |-> resampled[i].BLOCK_DATE],
     y |-> [c \in columns |-> [i \in 1..Len(resampled) |-> resampled[i].vals[c]]]]

----------------------------------------------------------------------------
(* The script, top to bottom *)

\* date ranges the run draws the two date inputs from
RunStarts == {0, 30}
RunDiffs == {0 - 1, 0, 2, 12, 35, MaxDays - 1}

\* the condition of the handler's outer if; a date_input always holds a date,
\* and selected_columns is bound only when a table is selected
canFetchTableOnly(table, columns) == table # None

canFetch(table, columns) == table # None /\ columns # {}

Init ==
    /\ pc = "connect"
    /\ conn = "none"
    /\ selected_table = None
    /\ selected_columns = {}
    /\ start_date = 0
    /\ end_date = 0
    /\ button = "unset"
    /\ queried = FALSE
    /\ data = <<>>
    /\ dataColumns = {}
    /\ times = <<>>
    /\ interval = None
    /\ resampled_data = <<>>
    /\ chart = <<>>
    /\ warning = None
    /\ error = None

\* an uncaught exception ends the run where it is raised
Raise(what) == pc' = "crashed" /\ error' = what

Connect ==
    /\ pc = "connect"
    /\ \/ conn' = "open" /\ pc' = "tables" /\ UNCHANGED error
       \/ Raise("connect") /\ UNCHANGED conn
    /\ UNCHANGED <<selected_table, selected_columns, start_date, end_date, button,
                   queried, data, dataColumns, times, interval, resampled_data,
                   chart, warning>>

GetTables ==
    /\ pc = "tables"
    /\ \/ \E tables \in {<<>>, <<"T">>} :
            /\ selected_table' = IF tables = <<>> THEN None ELSE tables[1]
            /\ pc' = "columns"
            /\ UNCHANGED error
       \/ Raise("get_tables") /\ UNCHANGED selected_table
    /\ UNCHANGED <<conn, selected_columns, start_date, end_date, button, queried,
                   data, dataColumns, times, interval, resampled_data, chart, warning>>

GetColumns ==
    /\ pc = "columns"
    /\ IF selected_table # None
       THEN \/ \E sel \in SUBSET TableColumns :
                 selected_columns' = sel /\ pc' = "dates" /\ UNCHANGED error
            \/ Raise("get_columns") /\ UNCHANGED selected_columns
       ELSE pc' = "dates" /\ UNCHANGED <<selected_columns, error>>
    /\ UNCHANGED <<conn, selected_table, start_date, end_date, button, queried,
                   data, dataColumns, times, interval, resampled_data, chart, warning>>

DateInputs ==
    /\ pc = "dates"
    /\ \E s \in RunStarts, d \in RunDiffs :
          start_date' = s /\ end_date' = s + d
    /\ pc' = "button"
    /\ UNCHANGED <<conn, selected_table, selected_columns, button, queried, data,
                   dataColumns, times, interval, resampled_data, chart, warning, error>>

Button ==
    /\ pc = "button"
    /\ \/ /\ button' = "not pressed"
          /\ pc' = "close"
          /\ UNCHANGED warning
       \/ /\ button' = "pressed"
          /\ IF canFetch(selected_table, selected_columns)
             THEN pc' = "fetch" /\ UNCHANGED warning
             ELSE pc' = "close" /\ warning' = "Please select a table, columns, and date range."
    /\ UNCHANGED <<conn, selected_table, selected_columns, start_date, end_date,
                   queried, data, dataColumns, times, interval, resampled_data,
                   chart, error>>

\* get_data, st.dataframe and the test 'BLOCK_DATE' in data.columns; what the
\* frame's columns are called is the client library's answer.  On the branch
\* without the column the rows are shown and not read again.
Fetch ==
    /\ pc = "fetch"
    /\ \/ \E cols \in {selected_columns \cup {"BLOCK_DATE"}, selected_columns} :
            /\ dataColumns' = cols
            /\ queried' = TRUE
            /\ IF "BLOCK_DATE" \in cols
               THEN /\ \E rows \in SeqsUpTo(RawRows(start_date, end_date, selected_columns),
                                            MaxRows) : data' = rows
                    /\ pc' = "parse"
                    /\ UNCHANGED warning
               ELSE /\ data' = <<>>
                    /\ pc' = "close"
                    /\ warning' = "The selected data does not have a 'BLOCK_DATE' column."
            /\ UNCHANGED error
       \/ /\ Raise("get_data")
          /\ queried' = TRUE
          /\ UNCHANGED <<data, dataColumns, warning>>
    /\ UNCHANGED <<conn, selected_table, selected_columns, start_date, end_date,
                   button, times, interval, resampled_data, chart>>

Parse ==
    /\ pc = "parse"
    /\ IF Unparseable(data)
       THEN Raise("to_datetime") /\ UNCHANGED data
       ELSE data' = sort_values(to_datetime(data)) /\ pc' = "gen" /\ UNCHANGED error
    /\ UNCHANGED <<conn, selected_table, selected_columns, start_date, end_date,
                   button, queried, dataColumns, times, interval, resampled_data,
                   chart, warning>>

Gen ==
    /\ pc = "gen"
    /\ times' = generate_time_series(start_date, end_date).times
    /\ interval' = generate_time_series(start_date, end_date).interval
    /\ pc' = "resample"
    /\ UNCHANGED <<conn, selected_table, selected_columns, start_date, end_date,
                   button, queried, data, dataColumns, resampled_data, chart,
                   warning, error>>

Resample ==
    /\ pc = "resample"
    /\ resampled_data' = resample_data(data, interval, selected_columns)
    /\ pc' = "plot"
    /\ UNCHANGED <<conn, selected_table, selected_columns, start_date, end_date,
                   button, queried, data, dataColumns, times, interval, chart,
                   warning, error>>

Plot ==
    /\ pc = "plot"
    /\ chart' = <<Figure(resampled_data, selected_columns, interval)>>
    /\ pc' = "close"
    /\ UNCHANGED <<conn, selected_table, selected_columns, start_date, end_date,
                   button, queried, data, dataColumns, times, interval,
                   resampled_data, warning, error>>

Close ==
    /\ pc = "close"
    /\ conn' = "closed"
    /\ pc' = "done"
    /\ UNCHANGED <<selected_table, selected_columns, start_date, end_date, button,
                   queried, data, dataColumns, times, interval, resampled_data,
                   chart, warning, error>>

Next ==
    \/ Connect
    \/ GetTables
    \/ GetColumns
    \/ DateInputs
    \/ Button
    \/ Fetch
    \/ Parse
    \/ Gen
    \/ Resample
    \/ Plot
    \/ Close

Spec == Init /\ [][Next]_vars

----------------------------------------------------------------------------
(* generate_time_series on its own, over every date range within the bounds *)

InitGen ==
    /\ pc = "gen"
    /\ conn = "open"
    /\ selected_table = "T"
    /\ selected_columns = {"a"}
    /\ start_date \in 0..MaxStart
    /\ \E d \in (0 - MaxBack)..MaxDays : end_date = start_date + d
    /\ button = "pressed"
    /\ queried = TRUE
    /\ data = <<>>
    /\ dataColumns = selected_columns \cup {"BLOCK_DATE"}
    /\ times = <<>>
    /\ interval = None
    /\ resampled_data = <<>>
    /\ chart = <<>>
    /\ warning = None
    /\ error = None

NextGen == Gen

SpecGen == InitGen /\ [][NextGen]_vars

----------------------------------------------------------------------------
(* Properties *)

\* generate_time_series has returned in this run
Generated == interval # None

\* resample_data has returned in this run
Resampled == pc = "plot" \/ chart # <<>>

\* the granularity the selection table gives for d whole days, d >= 0
BandOf(d) ==
    CASE d = 0 -> "H"
      [] d \in 1..10 -> "D"
      [] d \in 11..30 -> "2D"
      [] d \in 31..60 -> "5D"
      [] d >= 61 -> "M"

\* C1: for start <= end the interval chosen is decided by d = (end - start).days
\* alone: 'H' for d = 0, 'D' for 1..10, '2D' for 11..30, '5D' for 31..60 and
\* 'M' from 61 on.
C1_GranularityByDays ==
    (Generated /\ start_date <= end_date) => interval = BandOf(end_date - start_date)

\* C1 witness: a range at the band edge d = 10 got 'D'
C1_Witness ==
    Generated /\ end_date - start_date = 10 /\ interval = "D"

\* C2: a range with start > end is rejected with InvalidRange: no interval is
\* selected, no boundaries, aggregation or chart are produced, and the
\* rejection is shown to the user.
C2_InvalidRangeRejected ==
    (button = "pressed" /\ start_date > end_date) =>
        /\ interval = None
        /\ times = <<>>
        /\ resampled_data = <<>>
        /\ chart = <<>>
        /\ (pc = "done" /\ "BLOCK_DATE" \in dataColumns) => warning = "InvalidRange"

\* the day k calendar months after day, the day of month kept (clamped to the
\* length of the target month)
AddMonths(day, k) ==
    LET m == MonthOf(day)
        dom == day - MonthStartDay(m) + 1
        len == DaysInMonth(m + k)
    IN  MonthStartDay(m + k) + (IF dom < len THEN dom ELSE len) - 1

\* the k-th boundary counted from start: start + k*width, or k calendar months
\* after start for 'M'
StepFromStart(start, k, freq) ==
    IF freq = "M" THEN Midnight(AddMonths(start, k))
    ELSE Midnight(start) + k * Width(freq)

\* C3 as stated: the boundaries are exactly start + k*width (calendar-month
\* steps from start for 'M') that are <= end, so the first one is start.
C3_StepsFromStart ==
    (Generated /\ start_date <= end_date) =>
        /\ Len(times) >= 1
        /\ \A i \in 1..Len(times) : times[i] = StepFromStart(start_date, i - 1, interval)
        /\ times[Len(times)] <= Midnight(end_date)
        /\ StepFromStart(start_date, Len(times), interval) > Midnight(end_date)

\* the days in [start, end] that are the last day of their month
MonthEndsIn(start, end) == {d \in start..end : d = MonthEndDay(MonthOf(d))}

\* C3 (amended): for 'H', 'D', '2D', '5D' the boundaries are exactly
\* start + k*width, k = 0, 1, ..., that are <= end, beginning at start; for 'M'
\* they are the month-end dates lying in [start, end], ascending.  In every
\* case the sequence is non-empty and no element exceeds end.
C3_Boundaries ==
    (Generated /\ start_date <= end_date) =>
        /\ Len(times) >= 1
        /\ \A i \in 1..Len(times) : times[i] <= Midnight(end_date)
        /\ \A i \in 1..(Len(times) - 1) : times[i] < times[i + 1]
        /\ IF interval = "M"
           THEN {times[i] : i \in 1..Len(times)}
                    = {Midnight(d) : d \in MonthEndsIn(start_date, end_date)}
           ELSE /\ \A i \in 1..Len(times) :
                      times[i] = Midnight(start_date) + (i - 1) * Width(interval)
                /\ times[Len(times)] + Width(interval) > Midnight(end_date)

\* C3 witness: a monthly range whose first boundary is a month end after start
C3_Witness ==
    /\ Generated
    /\ interval = "M"
    /\ Len(times) >= 2
    /\ times[1] > Midnight(start_date)

\* C4: a same-day range gets 'H' and 24 (or 25) consecutive hourly boundaries
\* beginning at 00:00 of that day.
C4_SameDayHourly ==
    (Generated /\ start_date = end_date) =>
        /\ interval = "H"
        /\ Len(times) \in {24, 25}
        /\ \A i \in 1..Len(times) : times[i] = Midnight(start_date) + (i - 1)

\* C5: the bucket timestamps of the resampled frame, and the x values of the
\* chart, are exactly the boundaries generate_time_series returned.
C5_BucketsAreBoundaries ==
    Resampled =>
        /\ {resampled_data[i].BLOCK_DATE : i \in 1..Len(resampled_data)}
               = {times[i] : i \in 1..Len(times)}
        /\ chart # <<>> =>
               {chart[1].x[i] : i \in 1..Len(chart[1].x)} = {times[i] : i \in 1..Len(times)}

\* the instants the bucket labelled label covers: [label, label + width), or
\* for 'M' the whole month that ends on label
InBucket(t, label, freq) ==
    IF freq = "M"
    THEN /\ Midnight(MonthStartDay(MonthOf(DayOf(label)))) <= t
         /\ t < label + HoursPerDay
    ELSE label <= t /\ t < label + Width(freq)

RECURSIVE SumCells(_, _, _)
\* sum of column c over the rows of df with index in S
SumCells(df, c, S) ==
    IF S = {} THEN 0
    ELSE LET r == CHOOSE x \in S : TRUE
         IN  df[r].vals[c][1] + SumCells(df, c, S \ {r})

\* C6: every row falls in exactly one bucket, and a bucket's value for a column
\* is the mean over the rows of the bucket that have the column: n/d with
\* n * (number of such rows) = d * (their sum), and NaN when there are none.
C6_MeanOverPresent ==
    Resampled =>
        /\ \A r \in 1..Len(data) :
              Cardinality({k \in 1..Len(resampled_data) :
                  InBucket(data[r].BLOCK_DATE, resampled_data[k].BLOCK_DATE, interval)}) = 1
        /\ \A k \in 1..Len(resampled_data) : \A c \in selected_columns :
              LET have == {r \in 1..Len(data) :
                              /\ InBucket(data[r].BLOCK_DATE,
                                          resampled_data[k].BLOCK_DATE, interval)
                              /\ data[r].vals[c] # <<>>}
                  v == resampled_data[k].vals[c]
              IN  IF have = {} THEN v = <<>>
                  ELSE /\ Len(v) = 2
                       /\ v[2] > 0
                       /\ v[1] * Cardinality(have) = v[2] * SumCells(data, c, have)

\* C6 witness: a bucket holding a row with a = 2 and a row without a, whose
\* mean of a is 2
C6_Witness ==
    /\ chart # <<>>
    /\ "a" \in selected_columns
    /\ \E k \in 1..Len(resampled_data) :
          /\ resampled_data[k].vals["a"] = <<2, 1>>
          /\ \E r, q \in 1..Len(data) :
                /\ InBucket(data[r].BLOCK_DATE, resampled_data[k].BLOCK_DATE, interval)
                /\ InBucket(data[q].BLOCK_DATE, resampled_data[k].BLOCK_DATE, interval)
                /\ data[r].vals["a"] = <<2>>
                /\ data[q].vals["a"] = <<>>

\* C7: for start <= end and any rows, the empty set included, the output has
\* one entry per boundary interval of the range, ascending, and an interval
\* without rows is present with an empty field map.
C7_OneEntryPerInterval ==
    (Resampled /\ start_date <= end_date) =>
        /\ Len(resampled_data) \in {Len(times) - 1, Len(times)}
        /\ \A k \in 1..Len(resampled_data) : resampled_data[k].BLOCK_DATE = times[k]

\* C8: a row whose BLOCK_DATE does not parse is not fatal.
C8_BadTimestampNotFatal ==
    (pc \in {"parse", "crashed"} /\ Unparseable(data)) => pc # "crashed"

\* C9: a run that has ended, by reaching the end of the script or by an
\* uncaught exception, has closed the connection it opened.
C9_ConnectionClosed ==
    (pc \in {"done", "crashed"} /\ conn # "none") => conn = "closed"

\* C10: with the button pressed, the query runs only with a table and at least
\* one column selected, a chart is drawn only from fetched data that has a
\* BLOCK_DATE column, and with no table, no columns or no BLOCK_DATE column the
\* run warns, plots nothing and raises nothing.
C10_FetchGuard ==
    /\ queried => /\ button = "pressed"
                  /\ selected_table # None
                  /\ selected_columns # {}
    /\ chart # <<>> => queried /\ "BLOCK_DATE" \in dataColumns
    /\ (button = "pressed" /\ (selected_table = None \/ selected_columns = {})) =>
          /\ pc \in {"close", "done"}
          /\ warning = "Please select a table, columns, and date range."
          /\ chart = <<>>
          /\ error = None
    /\ (dataColumns # {} /\ "BLOCK_DATE" \notin dataColumns) =>
          /\ pc \in {"close", "done"}
          /\ warning = "The selected data does not have a 'BLOCK_DATE' column."
          /\ chart = <<>>
          /\ error = None

\* C10 witness: the button was pressed with a table but no column selected,
\* and the run ended with the warning
C10_Witness ==
    /\ pc = "done"
    /\ button = "pressed"
    /\ selected_table # None
    /\ selected_columns = {}
    /\ warning = "Please select a table, columns, and date range."

====
